---- MODULE Spec2Model ----
(***************************************************************************)
(* Model of collab/src/main.rs: a read-only warp service that serves       *)
(* GET /questions from an in-memory Store, with start/end pagination.      *)
(*                                                                         *)
(* Strings that the code inspects character by character (the values of    *)
(* the query parameters) are sequences of one-character strings.  usize is *)
(* scaled down to UsizeBits bits so that overflow of parse::<usize> is     *)
(* reachable with short strings.                                           *)
(***************************************************************************)
EXTENDS Integers, Sequences, FiniteSets, TLC

\* ---------------------------------------------------------------- bounds
UsizeBits == 4
MaxStrLen == 2
MaxQuestions == 3
NHandlers == 2

\* ------------------------------------------------------------- constants
USIZE_MAX == (2 ^ UsizeBits) - 1

RANGE_NOT_SATISFIABLE == 416
FORBIDDEN == 403
NOT_FOUND == 404
OK_STATUS == 200

\* -------------------------------------------------------- input alphabets
Alphabet == {"0", "1", "9", "+", "a"}

DigitChars == {"0", "1", "9"}

Strings == UNION {[1..n -> Alphabet] : n \in 0..MaxStrLen}

\* ------------------------------------------------------ usize::from_str
to_digit(c) == CASE c = "0" -> 0 [] c = "1" -> 1 [] c = "9" -> 9

ParseOk(n) == [tag |-> "Ok", val |-> n]

ParseErr(kind) == [tag |-> "Err", kind |-> kind]

RECURSIVE Accumulate(_, _)
Accumulate(digits, result) ==
    IF digits = <<>> THEN ParseOk(result)
    ELSE IF digits[1] \notin DigitChars THEN ParseErr("InvalidDigit")
    ELSE IF result * 10 > USIZE_MAX THEN ParseErr("PosOverflow")
    ELSE IF result * 10 + to_digit(digits[1]) > USIZE_MAX THEN ParseErr("PosOverflow")
    ELSE Accumulate(Tail(digits), result * 10 + to_digit(digits[1]))

parse_usize(src) ==
    IF src = <<>> THEN ParseErr("Empty")
    ELSE IF src[1] \in {"+", "-"} /\ Len(src) = 1 THEN ParseErr("InvalidDigit")
    ELSE IF src[1] = "+" THEN Accumulate(Tail(src), 0)
    ELSE Accumulate(src, 0)

\* ----------------------------------------------------------- Pagination
Pagination(s, e) == [start |-> s, end |-> e]

OkPagination(p) == [tag |-> "Ok", p |-> p]

ErrorParseError(kind) == [tag |-> "ParseError", err |-> kind]

ErrorMissingParameters == [tag |-> "MissingParameters"]

ErrorStartGreaterThanEnd(p) == [tag |-> "StartGreaterThanEnd", p |-> p]

\* HashMap::get on the query-parameter mapping
Present(params, key) == key \in DOMAIN params

\* variant of CheckOrder with the comparison reversed
CheckOrderFlipped(p) ==
    IF p.start < p.end THEN ErrorStartGreaterThanEnd(p) ELSE OkPagination(p)

\* lines 48-52: the order check on a parsed pair
CheckOrder(p) ==
    IF p.start > p.end THEN ErrorStartGreaterThanEnd(p) ELSE OkPagination(p)

\* variant of BothPresent where an unparseable end means "no upper bound"
BothPresentEndDefaulted(start, end) ==
    LET s == parse_usize(start)
        e == parse_usize(end)
    IN  IF s.tag = "Err" THEN ErrorParseError(s.kind)
        ELSE IF e.tag = "Err" THEN CheckOrder(Pagination(s.val, USIZE_MAX))
        ELSE CheckOrder(Pagination(s.val, e.val))

\* lines 43-53: both present; the two `?` return the first parse failure
BothPresent(start, end) ==
    LET s == parse_usize(start)
        e == parse_usize(end)
    IN  IF s.tag = "Err" THEN ErrorParseError(s.kind)
        ELSE IF e.tag = "Err" THEN ErrorParseError(e.kind)
        ELSE CheckOrder(Pagination(s.val, e.val))

\* variant of NeitherPresent whose sentinel is usize::MAX + 1, wrapped
NeitherPresentWrapped == OkPagination(Pagination(0, (USIZE_MAX + 1) % (2 ^ UsizeBits)))

\* lines 56-59: neither present
NeitherPresent == OkPagination(Pagination(0, USIZE_MAX))

\* variant of OnePresent that fills in the absent bound
OnePresentDefaulted(params) ==
    IF Present(params, "start") THEN BothPresent(params["start"], <<"9">>)
    ELSE NeitherPresent

\* line 61: exactly one present
OnePresent(params) == ErrorMissingParameters

extract_pagination(params) ==
    IF Present(params, "start") /\ Present(params, "end")
        THEN BothPresent(params["start"], params["end"])
    ELSE IF ~Present(params, "start") /\ ~Present(params, "end")
        THEN NeitherPresent
    ELSE OnePresent(params)

min(a, b) == IF a <= b THEN a ELSE b

\* variant of valid_range that clamps only the end
valid_rangeUnclampedStart(p, length) == [lo |-> p.start, hi |-> min(p.end, length)]

\* lines 98-100
valid_range(p, length) == [lo |-> min(p.start, length), hi |-> min(p.end, length)]

\* &res[range]: panics unless lo <= hi <= len
SliceInBounds(r, length) == r.lo <= r.hi /\ r.hi <= length

Slice(vec, r) == [i \in 1..(r.hi - r.lo) |-> vec[r.lo + i]]

\* ------------------------------------------------ Error as Display / reply
ParseIntErrorDisplay(kind) ==
    CASE kind = "Empty" -> "cannot parse integer from empty string"
      [] kind = "InvalidDigit" -> "invalid digit found in string"
      [] kind = "PosOverflow" -> "number too large to fit in target type"

\* #[derive(Debug)] on Pagination
PaginationDebug(p) ==
    <<"Pagination { start: ", ToString(p.start), ", end: ", ToString(p.end), " }">>

\* lines 18-30
ErrorDisplay(error) ==
    CASE error.tag = "ParseError" ->
            <<"Cannot parse parameter: ", ParseIntErrorDisplay(error.err)>>
      [] error.tag = "MissingParameters" -> <<"Missing parameter">>
      [] error.tag = "StartGreaterThanEnd" ->
            <<"Start greater end ">> \o PaginationDebug(error.p)

NoRejection == [kind |-> "None", error |-> [tag |-> "None"]]

RejectCustom(error) == [kind |-> "Error", error |-> error]

RejectNotFound == [kind |-> "NotFound", error |-> [tag |-> "None"]]

RejectCorsForbidden == [kind |-> "CorsForbidden", error |-> [tag |-> "None"]]

\* variant of return_error without the branch for Error
return_errorNoErrorBranch(r) ==
    IF r.kind = "CorsForbidden"
        THEN [status |-> FORBIDDEN, body |-> <<"CORS request forbidden">>]
    ELSE [status |-> NOT_FOUND, body |-> <<"Route not found">>]

\* lines 109-126
return_error(r) ==
    IF r.kind = "Error"
        THEN [status |-> RANGE_NOT_SATISFIABLE, body |-> ErrorDisplay(r.error)]
    ELSE IF r.kind = "CorsForbidden"
        THEN [status |-> FORBIDDEN, body |-> <<"CORS request forbidden">>]
    ELSE [status |-> NOT_FOUND, body |-> <<"Route not found">>]

\* ------------------------------------------------------ Question / Store
IdStr(n) == [i \in 1..n |-> "q"]

\* the keys the data source may hold (QuestionId is a newtype over String:
\* its derived Deserialize accepts every string)
QuestionIds == {IdStr(n) : n \in 0..(MaxQuestions - 1)}

Question(k) == [id |-> k, title |-> "T", content |-> "C", tags |-> "null"]

\* questions.json: malformed, or a JSON object of question records
MalformedSource == [ok |-> FALSE, keys |-> {}]

WellFormedSource(K) == [ok |-> TRUE, keys |-> K]

FirstIds(n) == {IdStr(k) : k \in 0..(n - 1)}

Sources == {MalformedSource} \cup {WellFormedSource(FirstIds(n)) : n \in 0..MaxQuestions}

\* a HashMap is modelled by its bucket order: a sequence without repeated keys
BucketOrders(S) ==
    {f \in [1..Cardinality(S) -> S] : \A i, j \in 1..Cardinality(S) : f[i] = f[j] => i = j}

\* variant of StoreInit that falls back to an empty map (unwrap_or_default)
StoreInitOrDefault(source) ==
    IF source.ok
        THEN {[tag |-> "Ok", questions |-> o] :
                o \in BucketOrders({Question(k) : k \in source.keys})}
    ELSE {[tag |-> "Ok", questions |-> <<>>]}

\* lines 88-91: serde_json::from_str(..).expect(..); the hasher seed of the new
\* HashMap is random, so every bucket order is possible
StoreInit(source) ==
    IF source.ok
        THEN {[tag |-> "Ok", questions |-> o] :
                o \in BucketOrders({Question(k) : k \in source.keys})}
    ELSE {[tag |-> "Panic", questions |-> <<>>]}

Range(seq) == {seq[i] : i \in 1..Len(seq)}

\* variant of StoreClone that rebuilds the table, in any bucket order
StoreCloneRehashed(st) == {[questions |-> o] : o \in BucketOrders(Range(st.questions))}

\* #[derive(Clone)] on Store (line 76): HashMap::clone copies the hasher and
\* the table bucket for bucket, so the clone iterates in the same order
StoreClone(st) == {[questions |-> st.questions]}

\* line 102: store.questions.values().cloned().collect::<Vec<_>>()
values(st) == st.questions

\* serde_json serialisation of one Question, fields in declaration order
to_json(q) ==
    <<"{", "\"id\":\"">> \o q.id \o
    <<"\",\"title\":\"", q.title, "\",\"content\":\"", q.content, "\",\"tags\":", q.tags, "}">>

RECURSIVE JoinJson(_)
JoinJson(vec) ==
    IF vec = <<>> THEN <<>>
    ELSE IF Len(vec) = 1 THEN to_json(vec[1])
    ELSE to_json(vec[1]) \o <<",">> \o JoinJson(Tail(vec))

\* line 106: warp::reply::json(&res)
reply_json(vec) == [status |-> OK_STATUS, body |-> <<"[">> \o JoinJson(vec) \o <<"]">>]

\* --------------------------------------------------------------- requests
EmptyQuery == [k \in {} |-> <<>>]

Merge(f, g) == [k \in (DOMAIN f) \cup (DOMAIN g) |-> IF k \in DOMAIN f THEN f[k] ELSE g[k]]

OtherParams == {EmptyQuery, [k \in {"limit"} |-> <<"1">>]}

\* every query-parameter mapping over the bounded strings
QueryMaps ==
    {Merge(f, g) : f \in UNION {[D -> Strings] : D \in SUBSET {"start", "end"}},
                   g \in OtherParams}

\* the requests the concurrent specification draws from: one per outcome
SampleQueries ==
    { EmptyQuery,
      [k \in {"start", "end"} |-> IF k = "start" THEN <<"0">> ELSE <<"1">>],
      [k \in {"start", "end"} |-> IF k = "start" THEN <<"1">> ELSE <<"0">>],
      [k \in {"start", "end"} |-> IF k = "start" THEN <<"a">> ELSE <<"1">>],
      [k \in {"start"} |-> <<"1">>] }

\* ------------------------------------------------------------------ state
VARIABLES mainPc, source, store, handlers

vars == <<mainPc, source, store, handlers>>

Handlers == 1..NHandlers

NoPagination == [tag |-> "None"]

NoRange == [lo |-> 0, hi |-> 0]

NoResponse == [status |-> 0, body |-> <<>>]

EmptyStore == [questions |-> <<>>]

IdleHandler ==
    [pc |-> "idle", params |-> EmptyQuery, store |-> EmptyStore, res |-> <<>>,
     pagination |-> NoPagination, rejection |-> NoRejection, range |-> NoRange,
     response |-> NoResponse]

Init ==
    /\ mainPc = "new"
    /\ source \in Sources
    /\ store = EmptyStore
    /\ handlers = [i \in Handlers |-> IdleHandler]

\* line 130: Store::new()
StoreNew ==
    /\ mainPc = "new"
    /\ \E r \in StoreInit(source) :
        IF r.tag = "Ok"
            THEN /\ store' = [questions |-> r.questions]
                 /\ mainPc' = "build"
            ELSE /\ mainPc' = "panicked"
                 /\ UNCHANGED store
    /\ UNCHANGED <<source, handlers>>

\* lines 131-148: build the filters, then warp::serve(routes).run(..)
Serve ==
    /\ mainPc = "build"
    /\ mainPc' = "serving"
    /\ UNCHANGED <<source, store, handlers>>

\* lines 138-143: GET /questions matched; warp::query() extracts the mapping
\* and store_filter hands the handler its own clone of the Store
Receive(i, queries) ==
    /\ mainPc = "serving"
    /\ handlers[i].pc \in {"idle", "done"}
    /\ \E q \in queries, c \in StoreClone(store) :
        handlers' = [handlers EXCEPT ![i] =
            [IdleHandler EXCEPT !.pc = "102", !.params = q, !.store = c]]
    /\ UNCHANGED <<mainPc, source, store>>

\* another path: the route filters reject and .recover(return_error) runs
ReceiveUnmatched(i) ==
    /\ mainPc = "serving"
    /\ handlers[i].pc \in {"idle", "done"}
    /\ handlers' = [handlers EXCEPT ![i] =
            [IdleHandler EXCEPT !.pc = "recover", !.rejection = RejectNotFound]]
    /\ UNCHANGED <<mainPc, source, store>>

\* variant of Collect that drains a Store shared by all handlers
CollectDraining(i) ==
    /\ handlers[i].pc = "102"
    /\ handlers' = [handlers EXCEPT ![i].res = values(handlers[i].store), ![i].pc = "103"]
    /\ store' = EmptyStore
    /\ UNCHANGED <<mainPc, source>>

\* line 102
Collect(i) ==
    /\ handlers[i].pc = "102"
    /\ handlers' = [handlers EXCEPT ![i].res = values(handlers[i].store), ![i].pc = "103"]
    /\ UNCHANGED <<mainPc, source, store>>

\* line 103: extract_pagination(params)?
Resolve(i) ==
    /\ handlers[i].pc = "103"
    /\ LET r == extract_pagination(handlers[i].params)
       IN  IF r.tag = "Ok"
            THEN handlers' = [handlers EXCEPT ![i].pagination = r, ![i].pc = "104"]
            ELSE handlers' = [handlers EXCEPT ![i].pagination = r,
                                              ![i].rejection = RejectCustom(r),
                                              ![i].pc = "recover"]
    /\ UNCHANGED <<mainPc, source, store>>

\* lines 104-106: slice and reply; an out-of-bounds slice panics the task
Reply(i) ==
    /\ handlers[i].pc = "104"
    /\ LET h == handlers[i]
           r == valid_range(h.pagination.p, Len(h.res))
       IN  IF SliceInBounds(r, Len(h.res))
            THEN handlers' = [handlers EXCEPT ![i].range = r,
                                              ![i].response = reply_json(Slice(h.res, r)),
                                              ![i].pc = "done"]
            ELSE handlers' = [handlers EXCEPT ![i].range = r, ![i].pc = "panicked"]
    /\ UNCHANGED <<mainPc, source, store>>

\* line 144: .recover(return_error)
Recover(i) ==
    /\ handlers[i].pc = "recover"
    /\ handlers' = [handlers EXCEPT ![i].response = return_error(handlers[i].rejection),
                                    ![i].pc = "done"]
    /\ UNCHANGED <<mainPc, source, store>>

Next ==
    \/ StoreNew
    \/ Serve
    \/ \E i \in Handlers : Receive(i, SampleQueries)
    \/ \E i \in Handlers : ReceiveUnmatched(i)
    \/ \E i \in Handlers : Collect(i)
    \/ \E i \in Handlers : Resolve(i)
    \/ \E i \in Handlers : Reply(i)
    \/ \E i \in Handlers : Recover(i)

Spec == Init /\ [][Next]_vars

\* One request at a time against a loaded Store, over every bounded mapping
CanonicalOrder(n) == [i \in 1..n |-> Question(IdStr(i - 1))]

InitSeq ==
    /\ mainPc = "serving"
    /\ \E n \in 0..MaxQuestions :
        /\ source = WellFormedSource(FirstIds(n))
        /\ store = [questions |-> CanonicalOrder(n)]
    /\ handlers = [i \in Handlers |-> IdleHandler]

\* the request under study: the first one the idle handler receives
ReceiveFirst ==
    /\ handlers[1].pc = "idle"
    /\ Receive(1, QueryMaps)

NextSeq ==
    \/ ReceiveFirst
    \/ ReceiveUnmatched(1)
    \/ Collect(1)
    \/ Resolve(1)
    \/ Reply(1)
    \/ Recover(1)

SpecSeq == InitSeq /\ [][NextSeq]_vars

\* ======================================================== properties
\* what a request asks for, read off its query-parameter mapping
HasStart(h) == "start" \in DOMAIN h.params

HasEnd(h) == "end" \in DOMAIN h.params

\* a decimal numeral, and the non-negative integer it denotes (unbounded)
IsNumeral(str) == str # <<>> /\ \A i \in 1..Len(str) : str[i] \in DigitChars

RECURSIVE NumeralValue(_)
NumeralValue(str) ==
    IF str = <<>> THEN 0
    ELSE 10 * NumeralValue(SubSeq(str, 1, Len(str) - 1)) + to_digit(str[Len(str)])

Parses(str) == parse_usize(str).tag = "Ok"

Resolved(h) == h.pagination.tag # "None"

Length == Len(store.questions)

\* the request asks for the integers s <= e by their decimal numerals
AsksOrderedIntegers(h) ==
    /\ HasStart(h) /\ HasEnd(h)
    /\ IsNumeral(h.params["start"]) /\ IsNumeral(h.params["end"])
    /\ NumeralValue(h.params["start"]) <= NumeralValue(h.params["end"])

FitsUsize(h) ==
    /\ NumeralValue(h.params["start"]) <= USIZE_MAX
    /\ NumeralValue(h.params["end"]) <= USIZE_MAX

\* the request is answered 200 with exactly the records [min(s,L), min(e,L))
SlicedExactly(h, s, e) ==
    /\ h.pc # "panicked"
    /\ h.pc \in {"104", "done"} => h.pagination = OkPagination(Pagination(s, e))
    /\ h.pc = "done" =>
        /\ h.range = [lo |-> min(s, Length), hi |-> min(e, Length)]
        /\ 0 <= h.range.lo /\ h.range.lo <= h.range.hi /\ h.range.hi <= Length
        /\ h.response.status = OK_STATUS
        /\ h.response.body =
              reply_json(SubSeq(store.questions, h.range.lo + 1, h.range.hi)).body
        /\ (s >= Length \/ h.range.lo = h.range.hi) => h.response.body = <<"[", "]">>

\* C1 as stated: for EVERY pair of non-negative integers s <= e and every
\* collection length L, the request start=s, end=e succeeds and is sliced by
\* exactly [min(s,L), min(e,L)), which is in bounds (and may be empty).
C1_AllIntegers ==
    \A i \in Handlers :
        LET h == handlers[i]
        IN  (Resolved(h) /\ AsksOrderedIntegers(h)) =>
                /\ h.pagination.tag = "Ok"
                /\ SlicedExactly(h, NumeralValue(h.params["start"]),
                                    NumeralValue(h.params["end"]))

\* C1 amended: for every pair of non-negative integers s <= e that fit usize
\* and every collection length L, the request start=s, end=e succeeds and is
\* sliced by exactly [min(s,L), min(e,L)), which satisfies 0 <= lo <= hi <= L,
\* so the slice never panics; it is empty when s >= L or lo = hi.
C1_RangeClamped ==
    \A i \in Handlers :
        LET h == handlers[i]
        IN  (Resolved(h) /\ AsksOrderedIntegers(h) /\ FitsUsize(h)) =>
                /\ h.pagination.tag = "Ok"
                /\ SlicedExactly(h, NumeralValue(h.params["start"]),
                                    NumeralValue(h.params["end"]))

\* a served request whose end was clamped to L and whose slice is not empty
C1_Witness ==
    \E i \in Handlers :
        LET h == handlers[i]
        IN  /\ h.pc = "done" /\ HasStart(h) /\ HasEnd(h)
            /\ AsksOrderedIntegers(h)
            /\ NumeralValue(h.params["start"]) = 1
            /\ NumeralValue(h.params["end"]) > Length
            /\ h.range = [lo |-> 1, hi |-> Length]
            /\ Length >= 2
            /\ h.response.status = OK_STATUS

\* C2: with neither start nor end in the mapping, extract_pagination yields
\* Pagination{start: 0, end: usize::MAX}; whatever the length L the effective
\* range is [0, L) with L <= usize::MAX, and the reply holds all L records.
C2_DefaultFullRange ==
    \A i \in Handlers :
        LET h == handlers[i]
        IN  (Resolved(h) /\ ~HasStart(h) /\ ~HasEnd(h)) =>
                /\ h.pagination = OkPagination(Pagination(0, USIZE_MAX))
                /\ h.pc # "panicked"
                /\ Length <= USIZE_MAX
                /\ h.pc = "done" =>
                    /\ h.range = [lo |-> 0, hi |-> Length]
                    /\ h.response.status = OK_STATUS
                    /\ h.response.body = reply_json(store.questions).body

\* a served request without start and end, on a Store of several records
C2_Witness ==
    \E i \in Handlers :
        LET h == handlers[i]
        IN  /\ h.pc = "done" /\ Resolved(h) /\ ~HasStart(h) /\ ~HasEnd(h)
            /\ "limit" \in DOMAIN h.params
            /\ Length >= 2
            /\ Len(h.res) = Length
            /\ h.range.hi = Length

\* C3: when start and end are both present and both parse, with start > end,
\* extract_pagination fails with StartGreaterThanEnd carrying the parsed pair;
\* every Pagination it returns has start <= end.
C3_StartGreaterThanEnd ==
    \A i \in Handlers :
        LET h == handlers[i]
        IN  Resolved(h) =>
                /\ (/\ HasStart(h) /\ HasEnd(h)
                    /\ Parses(h.params["start"]) /\ Parses(h.params["end"])
                    /\ parse_usize(h.params["start"]).val > parse_usize(h.params["end"]).val)
                   => /\ h.pagination.tag = "StartGreaterThanEnd"
                      /\ h.pagination.p.start = parse_usize(h.params["start"]).val
                      /\ h.pagination.p.end = parse_usize(h.params["end"]).val
                      /\ h.pagination.p.start > h.pagination.p.end
                /\ h.pagination.tag = "Ok" => h.pagination.p.start <= h.pagination.p.end

\* a request with start = 9 and end = 1 has been rejected
C3_Witness ==
    \E i \in Handlers :
        LET h == handlers[i]
        IN  /\ h.pc = "recover"
            /\ h.pagination = ErrorStartGreaterThanEnd(Pagination(9, 1))
            /\ h.rejection.kind = "Error"

\* C4: when exactly one of start and end is present, extract_pagination fails
\* with MissingParameters, whatever the present value and the other parameters.
C4_MissingParameters ==
    \A i \in Handlers :
        LET h == handlers[i]
        IN  (Resolved(h) /\ (HasStart(h) # HasEnd(h))) =>
                /\ h.pagination = ErrorMissingParameters
                /\ h.pc \in {"recover", "done"}

\* end alone, holding an unparseable value, next to another parameter
C4_Witness ==
    \E i \in Handlers :
        LET h == handlers[i]
        IN  /\ Resolved(h) /\ HasEnd(h) /\ ~HasStart(h)
            /\ ~Parses(h.params["end"])
            /\ "limit" \in DOMAIN h.params
            /\ h.pagination.tag = "MissingParameters"

\* C5 as stated: for EVERY mapping, if a present value of start or end does
\* not parse as a non-negative integer, resolution fails with ParseError.
C5_AnyPresentValue ==
    \A i \in Handlers :
        LET h == handlers[i]
        IN  (/\ Resolved(h)
             /\ \/ (HasStart(h) /\ ~Parses(h.params["start"]))
                \/ (HasEnd(h) /\ ~Parses(h.params["end"])))
            => h.pagination.tag = "ParseError"

\* C5 amended: for every mapping that holds BOTH start and end, if either
\* value does not parse as a usize, resolution fails with ParseError carrying
\* the parse failure of the first such value (never StartGreaterThanEnd or Ok).
C5_ParseError ==
    \A i \in Handlers :
        LET h == handlers[i]
        IN  (/\ Resolved(h) /\ HasStart(h) /\ HasEnd(h)
             /\ (~Parses(h.params["start"]) \/ ~Parses(h.params["end"])))
            => /\ h.pagination.tag = "ParseError"
               /\ h.pagination.err =
                    IF ~Parses(h.params["start"])
                        THEN parse_usize(h.params["start"]).kind
                        ELSE parse_usize(h.params["end"]).kind
               /\ h.pc \in {"recover", "done"}

\* start parses and exceeds nothing, end overflows usize
C5_Witness ==
    \E i \in Handlers :
        LET h == handlers[i]
        IN  /\ Resolved(h) /\ HasStart(h) /\ HasEnd(h)
            /\ Parses(h.params["start"])
            /\ IsNumeral(h.params["end"]) /\ ~Parses(h.params["end"])
            /\ h.pagination = ErrorParseError("PosOverflow")

\* C6: a request to /questions whose resolution failed is answered 416 with
\* the plain-text message of that error and never 200; one whose resolution
\* succeeded is answered 200 with the sliced records.
C6_ErrorStatus ==
    \A i \in Handlers :
        LET h == handlers[i]
        IN  (Resolved(h) /\ h.pc = "done") =>
                /\ h.pagination.tag = "ParseError" =>
                    /\ h.response.status = RANGE_NOT_SATISFIABLE
                    /\ h.response.body =
                        <<"Cannot parse parameter: ", ParseIntErrorDisplay(h.pagination.err)>>
                /\ h.pagination.tag = "MissingParameters" =>
                    /\ h.response.status = RANGE_NOT_SATISFIABLE
                    /\ h.response.body = <<"Missing parameter">>
                /\ h.pagination.tag = "StartGreaterThanEnd" =>
                    /\ h.response.status = RANGE_NOT_SATISFIABLE
                    /\ h.response.body[1] = "Start greater end "
                    /\ h.response.body[3] = ToString(h.pagination.p.start)
                    /\ h.response.body[5] = ToString(h.pagination.p.end)
                /\ h.pagination.tag = "Ok" =>
                    /\ h.response.status = OK_STATUS
                    /\ h.response.body =
                        reply_json(SubSeq(h.res, h.range.lo + 1, h.range.hi)).body
                /\ h.pagination.tag # "Ok" => h.response.body[1] # "["

\* a rejected request has been answered 416
C6_Witness ==
    \E i \in Handlers :
        LET h == handlers[i]
        IN  /\ h.pc = "done"
            /\ h.pagination.tag = "StartGreaterThanEnd"
            /\ h.response.status = RANGE_NOT_SATISFIABLE

\* the reply the request gets when it is the only one running
AloneResponse(q) ==
    LET r == extract_pagination(q)
    IN  IF r.tag = "Ok"
            THEN reply_json(Slice(values(store), valid_range(r.p, Length)))
            ELSE return_error(RejectCustom(r))

Loaded == {Question(k) : k \in source.keys}

\* C7: under every interleaving of concurrent get_questions invocations the
\* Store holds what was loaded at startup (and so does every clone handed to
\* a handler), the next step of every invocation is enabled whatever the
\* others are doing, and every reply equals the reply of the request run alone.
C7_ConcurrentReads ==
    /\ mainPc \in {"build", "serving"} =>
        /\ Range(store.questions) = Loaded
        /\ Len(store.questions) = Cardinality(Loaded)
    /\ \A i \in Handlers :
        LET h == handlers[i]
        IN  /\ h.pc \in {"102", "103", "104"} => h.store = store
            /\ h.pc = "102" => ENABLED Collect(i)
            /\ h.pc = "103" => ENABLED Resolve(i)
            /\ h.pc = "104" => ENABLED Reply(i)
            /\ h.pc = "recover" => ENABLED Recover(i)
            /\ (mainPc = "serving" /\ h.pc \in {"idle", "done"})
                    => ENABLED Receive(i, SampleQueries)
            /\ (h.pc = "done" /\ Resolved(h)) => h.response = AloneResponse(h.params)

\* two invocations overlap: one has replied with records while another,
\* started on a different request, is between collecting and resolving
C7_Witness ==
    \E i, j \in Handlers :
        /\ i # j
        /\ handlers[i].pc = "done" /\ handlers[i].response.status = OK_STATUS
        /\ Len(handlers[i].res) >= 2
        /\ handlers[j].pc = "103"
        /\ handlers[j].params # handlers[i].params

\* C8: two identical requests to /questions, answered from the unchanged
\* Store through separate clones, get identical replies: the same status and
\* the same JSON body, records in the same order.
C8_Idempotent ==
    \A i, j \in Handlers :
        (/\ handlers[i].pc = "done" /\ handlers[j].pc = "done"
         /\ Resolved(handlers[i]) /\ Resolved(handlers[j])
         /\ handlers[i].params = handlers[j].params)
        => handlers[i].response = handlers[j].response

\* two handlers have answered the same request with at least two records
C8_Witness ==
    \E i, j \in Handlers :
        /\ i # j
        /\ handlers[i].pc = "done" /\ handlers[j].pc = "done"
        /\ handlers[i].params = handlers[j].params
        /\ handlers[i].response.status = OK_STATUS
        /\ handlers[i].range.hi - handlers[i].range.lo >= 2
        /\ handlers[j].response.body = handlers[i].response.body

\* C9: the service listens, and a request is handled, only after the data
\* source has been parsed into the Store; with a malformed source the process
\* stops at startup and no handler ever leaves idle.
C9_LoadBeforeServe ==
    /\ (mainPc = "serving" \/ \E i \in Handlers : handlers[i].pc # "idle") =>
        /\ source.ok
        /\ Range(store.questions) = Loaded
    /\ ~source.ok =>
        /\ mainPc \in {"new", "panicked"}
        /\ \A i \in Handlers : handlers[i] = IdleHandler

\* the malformed source has stopped the process before any request
C9_Witness ==
    /\ mainPc = "panicked"
    /\ ~source.ok
    /\ \A i \in Handlers : handlers[i].pc = "idle"

\* C10: every key of the Store and every id of a served Question is a
\* non-empty string.
C10_NonEmptyIds ==
    /\ \A q \in Range(store.questions) : q.id # <<>>
    /\ \A i \in Handlers : \A q \in Range(handlers[i].res) : q.id # <<>>

====
